---- MODULE Spec2Model ----
(***************************************************************************)
(* A model of pymon's character database generator (pymon/gen/char.py):    *)
(* the Lookup class with its three memoized queries, the five passes that  *)
(* main() runs over the shared `characters` dictionary, and the final      *)
(* write of the output document (pymon/io.py).                             *)
(*                                                                         *)
(* JSON/Python values are tagged records so that int, str and None stay    *)
(* distinct and str() is a real conversion.  A JSON object is a function   *)
(* from its keys to values; a JSON array is a sequence.                    *)
(***************************************************************************)
EXTENDS Integers, Sequences, FiniteSets, TLC

VARIABLES pc, content, characters, order, avatar_cache, manual_cache,
          text_cache, text_access, text_returned, critical, fault, completed,
          output, writes

vars == <<pc, content, characters, order, avatar_cache, manual_cache,
          text_cache, text_access, text_returned, critical, fault, completed,
          output, writes>>

(***************************************************************************)
(* Bounds of the model: the longest Avatar and Fetter tables read.         *)
(***************************************************************************)
MaxAvatars == 2

MaxFetters == 2

(***************************************************************************)
(* Python values.                                                          *)
(***************************************************************************)
PyStr(s) == [k |-> "str", i |-> 0, s |-> s]

PyInt(n) == [k |-> "int", i |-> n, s |-> ""]

PyNone == [k |-> "none", i |-> 0, s |-> ""]

\* str(v)
Str(v) ==
  CASE v.k = "str" -> v.s
    [] v.k = "int" -> ToString(v.i)
    [] v.k = "none" -> "None"

\* dict.get(key): the value, or None when the key is absent
Get(d, key) == IF key \in DOMAIN d THEN d[key] ELSE PyNone

\* str.lower() on the strings the text maps below can return
Lower(s) ==
  CASE s = "Traveler" -> "traveler"
    [] s = "TRAVELER" -> "traveler"
    [] s = "Kamisato Ayaka" -> "kamisato ayaka"
    [] s = "Noelle" -> "noelle"
    [] s = "A shrine maiden..." -> "a shrine maiden..."
    [] s = "A maid..." -> "a maid..."
    [] s = "Cryo" -> "cryo"
    [] s = "Anemo" -> "anemo"
    [] s = "Sword" -> "sword"
    [] OTHER -> s

EmptyDict == [x \in {} |-> PyNone]

\* d[key] = value on a dict
Put(d, key, value) == (key :> value) @@ d

\* insertion order of a dict's keys after d[key] = value
PutOrder(keys, d, key) == IF key \in DOMAIN d THEN keys ELSE Append(keys, key)

Count(f, key) == IF key \in DOMAIN f THEN f[key] ELSE 0

Calls(f, key) == IF key \in DOMAIN f THEN f[key] ELSE <<>>

NoFault == "none"

NoOutput == [written |-> FALSE, data |-> EmptyDict]

(***************************************************************************)
(* The documents the run may find on disk.  Avatar and Fetter tables are   *)
(* any sequences, up to the bounds, of the records below; the records      *)
(* cover the one-avatar fixture, both travelers, a traveler with an        *)
(* unknown body type, two playable records sharing one Id, non-playable    *)
(* records (wrong or missing UseType), unmapped and missing QualityType,   *)
(* a missing WeaponType, and hashes stored as integers.                    *)
(***************************************************************************)
Ayaka ==
  [Id |-> PyInt(10000002), UseType |-> PyStr("AVATAR_FORMAL"),
   NameTextMapHash |-> PyStr("H1"), DescTextMapHash |-> PyStr("H2"),
   QualityType |-> PyStr("QUALITY_ORANGE"),
   WeaponType |-> PyStr("WEAPON_SWORD_ONE_HAND")]

TravelerBoy ==
  [Id |-> PyInt(10000005), UseType |-> PyStr("AVATAR_FORMAL"),
   NameTextMapHash |-> PyStr("H5"), DescTextMapHash |-> PyStr("H2"),
   QualityType |-> PyStr("QUALITY_ORANGE_SP"),
   WeaponType |-> PyStr("WEAPON_SWORD_ONE_HAND"),
   BodyType |-> PyStr("BODY_BOY")]

\* resolves to an upper-case name; has no QualityType
TravelerGirl ==
  [Id |-> PyInt(10000007), UseType |-> PyStr("AVATAR_FORMAL"),
   NameTextMapHash |-> PyStr("H6"), DescTextMapHash |-> PyStr("H2"),
   WeaponType |-> PyStr("WEAPON_SWORD_ONE_HAND"),
   BodyType |-> PyStr("BODY_GIRL")]

TravelerOther ==
  [Id |-> PyInt(10000005), UseType |-> PyStr("AVATAR_FORMAL"),
   NameTextMapHash |-> PyStr("H5"), DescTextMapHash |-> PyStr("H2"),
   QualityType |-> PyStr("QUALITY_ORANGE"),
   WeaponType |-> PyStr("WEAPON_SWORD_ONE_HAND"),
   BodyType |-> PyStr("BODY_MALE")]

\* a second playable record with TravelerBoy's Id
Noelle ==
  [Id |-> PyInt(10000005), UseType |-> PyStr("AVATAR_FORMAL"),
   NameTextMapHash |-> PyInt(7), DescTextMapHash |-> PyStr("H8"),
   QualityType |-> PyStr("QUALITY_PURPLE"),
   WeaponType |-> PyStr("WEAPON_CLAYMORE")]

\* a non-playable record with Ayaka's Id
TestAvatar ==
  [Id |-> PyInt(10000002), UseType |-> PyStr("AVATAR_SYNC_TEST"),
   NameTextMapHash |-> PyInt(7), DescTextMapHash |-> PyStr("H8"),
   QualityType |-> PyStr("QUALITY_PURPLE"),
   WeaponType |-> PyStr("WEAPON_CLAYMORE")]

\* no UseType at all
NoUseType ==
  [Id |-> PyInt(10000007), NameTextMapHash |-> PyStr("H1"),
   DescTextMapHash |-> PyStr("H2"), QualityType |-> PyStr("QUALITY_ORANGE"),
   WeaponType |-> PyStr("WEAPON_SWORD_ONE_HAND")]

\* an unmapped quality tier and no WeaponType
Odd ==
  [Id |-> PyInt(10000003), UseType |-> PyStr("AVATAR_FORMAL"),
   NameTextMapHash |-> PyStr("H1"), DescTextMapHash |-> PyStr("H8"),
   QualityType |-> PyStr("QUALITY_BLUE")]

AvatarRecords ==
  {Ayaka, TravelerBoy, TravelerGirl, TravelerOther, Noelle, TestAvatar,
   NoUseType, Odd}

FetterAyaka ==
  [AvatarId |-> PyInt(10000002),
   AvatarVisionBeforTextMapHash |-> PyStr("H3"),
   AvatarVisionAfterTextMapHash |-> PyStr("H3")]

\* before and after differ; the hashes are integers
FetterAyakaAnemo ==
  [AvatarId |-> PyInt(10000002),
   AvatarVisionBeforTextMapHash |-> PyInt(10),
   AvatarVisionAfterTextMapHash |-> PyStr("H3")]

\* refers to no avatar of AvatarRecords
FetterStranger ==
  [AvatarId |-> PyInt(10000099),
   AvatarVisionBeforTextMapHash |-> PyStr("H3"),
   AvatarVisionAfterTextMapHash |-> PyStr("H3")]

FetterRecords == {FetterAyaka, FetterAyakaAnemo, FetterStranger}

ManualFixture ==
  <<[TextMapId |-> PyStr("WEAPON_SWORD_ONE_HAND"),
     TextMapContentTextMapHash |-> PyStr("H4")]>>

\* two records for the sword; the first one's hash is in no text map
ManualTwice ==
  <<[TextMapId |-> PyStr("WEAPON_SWORD_ONE_HAND"),
     TextMapContentTextMapHash |-> PyInt(404)],
    [TextMapId |-> PyStr("WEAPON_SWORD_ONE_HAND"),
     TextMapContentTextMapHash |-> PyStr("H4")]>>

ManualTables == {ManualFixture, ManualTwice, <<>>}

TextMapFixture ==
  [H1 |-> PyStr("Kamisato Ayaka"), H2 |-> PyStr("A shrine maiden..."),
   H3 |-> PyStr("Cryo"), H4 |-> PyStr("Sword")]

TextMapFull ==
  TextMapFixture @@
  [H5 |-> PyStr("Traveler"), H6 |-> PyStr("TRAVELER"),
   H8 |-> PyStr("A maid...")] @@
  ("7" :> PyStr("Noelle")) @@ ("10" :> PyStr("Anemo"))

TextMaps == {TextMapFixture, TextMapFull}

SeqsUpTo(S, n) == UNION {[1..m -> S] : m \in 0..n}

Documents ==
  {"AvatarExcelConfigData", "FetterInfoExcelConfigData",
   "ManualTextMapConfigData", "TextMapEN"}

NoContent ==
  [AvatarExcelConfigData |-> <<>>, FetterInfoExcelConfigData |-> <<>>,
   ManualTextMapConfigData |-> <<>>, TextMapEN |-> EmptyDict]

Contents ==
  [AvatarExcelConfigData : SeqsUpTo(AvatarRecords, MaxAvatars),
   FetterInfoExcelConfigData : SeqsUpTo(FetterRecords, MaxFetters),
   ManualTextMapConfigData : ManualTables,
   TextMapEN : TextMaps]

(***************************************************************************)
(* The state a pass works on, threaded through the lookups it makes:       *)
(* the accumulator with its insertion order, the three memo tables, the    *)
(* Text-Map access counter, the strings text_map has returned per hash in  *)
(* call order, the critical log, and the exception in flight (NoFault      *)
(* while none was raised).                                                 *)
(***************************************************************************)
Machine ==
  [characters |-> characters, order |-> order,
   avatar_cache |-> avatar_cache, manual_cache |-> manual_cache,
   text_cache |-> text_cache, text_access |-> text_access,
   text_returned |-> text_returned, critical |-> critical, fault |-> fault]

\* logger.critical(message)
Critical(m, message) == [m EXCEPT !.critical = Append(@, message)]

\* raise kind
Raise(m, kind) == [m EXCEPT !.fault = kind]

\* is_playable with the KeyError branch returning True
is_playable_lenient(avatar) ==
  IF "UseType" \in DOMAIN avatar
  THEN avatar["UseType"] = PyStr("AVATAR_FORMAL")
  ELSE TRUE

\* Lookup.is_playable
is_playable(avatar) ==
  IF "UseType" \in DOMAIN avatar
  THEN avatar["UseType"] = PyStr("AVATAR_FORMAL")
  ELSE FALSE

\* the scan of Lookup.avatar: the index of the first playable record whose
\* Id, stringified, is avatar_id; 0 when the loop ends without a match.
\* (Every record of AvatarRecords has an Id, so avatar["Id"] never raises.)
RECURSIVE AvatarScan(_, _, _)
AvatarScan(table, avatar_id, i) ==
  IF i > Len(table) THEN 0
  ELSE IF is_playable(table[i]) /\ Str(table[i]["Id"]) = avatar_id THEN i
  ELSE AvatarScan(table, avatar_id, i + 1)

\* Lookup.avatar under functools.cache: a hit returns the cached record; a
\* miss scans the table and caches the record only when the call returns.
avatar(m, avatar_id) ==
  IF avatar_id \in DOMAIN m.avatar_cache
  THEN [m |-> m, value |-> m.avatar_cache[avatar_id]]
  ELSE LET table == content["AvatarExcelConfigData"]
           i == AvatarScan(table, avatar_id, 1)
       IN IF i # 0
          THEN [m |-> [m EXCEPT !.avatar_cache = Put(@, avatar_id, table[i])],
                value |-> table[i]]
          ELSE [m |-> Raise(Critical(m, "Unable to find avatar"),
                            "RuntimeError"),
                value |-> EmptyDict]

\* the scan of Lookup.manual_text_map: the index of the first record whose
\* TextMapId equals text_map_id (compared as values, not as strings)
RECURSIVE ManualScan(_, _, _)
ManualScan(table, text_map_id, i) ==
  IF i > Len(table) THEN 0
  ELSE IF table[i]["TextMapId"] = text_map_id THEN i
  ELSE ManualScan(table, text_map_id, i + 1)

\* Lookup.manual_text_map under functools.cache
manual_text_map(m, text_map_id) ==
  IF text_map_id \in DOMAIN m.manual_cache
  THEN [m |-> m, value |-> m.manual_cache[text_map_id]]
  ELSE LET table == content["ManualTextMapConfigData"]
           i == ManualScan(table, text_map_id, 1)
       IN IF i # 0
          THEN LET hash == Str(table[i]["TextMapContentTextMapHash"])
               IN [m |-> [m EXCEPT !.manual_cache = Put(@, text_map_id, hash)],
                   value |-> hash]
          ELSE [m |-> Raise(Critical(m, "Unable to find in manual text map"),
                            "RuntimeError"),
                value |-> ""]

\* what the caller of text_map sees returned for hash_id
Returned(m, hash_id, value) ==
  [m EXCEPT !.text_returned =
     Put(@, hash_id, Append(Calls(@, hash_id), value))]

\* text_map without @cache: every call reads the table
text_map_uncached(m, hash_id) ==
  LET table == content["TextMapEN"]
      m1 == [m EXCEPT !.text_access = Put(@, hash_id, Count(@, hash_id) + 1)]
  IN IF hash_id \in DOMAIN table
     THEN [m |-> Returned(m1, hash_id, Str(table[hash_id])),
           value |-> Str(table[hash_id])]
     ELSE [m |-> Raise(Critical(m1, "Invalid hash"), "KeyError"),
           value |-> ""]

\* Lookup.text_map under functools.cache: a hit returns the cached string
\* without touching the table; a miss reads content["TextMapEN"][hash_id]
\* once and caches str(value); a KeyError is logged critical and re-raised.
text_map(m, hash_id) ==
  IF hash_id \in DOMAIN m.text_cache
  THEN [m |-> Returned(m, hash_id, m.text_cache[hash_id]),
        value |-> m.text_cache[hash_id]]
  ELSE LET table == content["TextMapEN"]
           m1 == [m EXCEPT !.text_access =
                    Put(@, hash_id, Count(@, hash_id) + 1)]
       IN IF hash_id \in DOMAIN table
          THEN LET value == Str(table[hash_id])
               IN [m |-> Returned([m1 EXCEPT !.text_cache =
                                     Put(@, hash_id, value)],
                                  hash_id, value),
                   value |-> value]
          ELSE [m |-> Raise(Critical(m1, "Invalid hash"), "KeyError"),
                value |-> ""]

(***************************************************************************)
(* The five passes.  Each is the whole function: its loop runs to the end  *)
(* of the table or to the first exception, which leaves the accumulator    *)
(* as the iterations before it made it.                                    *)
(***************************************************************************)

\* characters[character_id] = {"name": character_name}
StoreName(m, character_id, character_name) ==
  [m EXCEPT !.order = PutOrder(@, m.characters, character_id),
            !.characters = Put(@, character_id,
                               [name |-> PyStr(character_name)])]

\* characters[character_id][field] = value, for an existing character_id
SetField(m, character_id, field, value) ==
  [m EXCEPT !.characters[character_id] = Put(@, field, value)]

\* the loop of _setup from the i-th Avatar record on
RECURSIVE SetupFrom(_, _)
SetupFrom(m, i) ==
  LET table == content["AvatarExcelConfigData"] IN
  IF i > Len(table) THEN m
  ELSE
    LET element == table[i] IN
    IF ~is_playable(element) THEN SetupFrom(m, i + 1)
    ELSE
      LET character_id == Str(Get(element, "Id"))
          character_name_hash == Str(Get(element, "NameTextMapHash"))
          t == text_map(m, character_name_hash)
      IN IF t.m.fault # NoFault THEN t.m
         ELSE IF Lower(t.value) = "traveler"
         THEN IF Get(element, "BodyType") = PyStr("BODY_BOY")
              THEN SetupFrom(StoreName(t.m, character_id, "Aether"), i + 1)
              ELSE IF Get(element, "BodyType") = PyStr("BODY_GIRL")
              THEN SetupFrom(StoreName(t.m, character_id, "Lumine"), i + 1)
              ELSE Raise(t.m, "NotImplementedError")
         ELSE SetupFrom(StoreName(t.m, character_id, t.value), i + 1)

\* the loop of _add_description from the j-th accumulator entry on
RECURSIVE AddDescriptionFrom(_, _)
AddDescriptionFrom(m, j) ==
  IF j > Len(m.order) THEN m
  ELSE
    LET avatar_id == m.order[j]
        a == avatar(m, avatar_id)
    IN IF a.m.fault # NoFault THEN a.m
       ELSE
         LET description_hash == Str(Get(a.value, "DescTextMapHash"))
             t == text_map(a.m, description_hash)
         IN IF t.m.fault # NoFault THEN t.m
            ELSE AddDescriptionFrom(
                   SetField(t.m, avatar_id, "description", PyStr(t.value)),
                   j + 1)

\* rarity_conversion.get(quality, quality): an unmapped quality passes through
rarity_conversion_passthrough(quality) ==
  CASE quality = PyStr("QUALITY_PURPLE") -> PyStr("4")
    [] quality = PyStr("QUALITY_ORANGE") -> PyStr("5")
    [] quality = PyStr("QUALITY_ORANGE_SP") -> PyStr("5")
    [] OTHER -> quality

\* rarity_conversion.get(quality): None for a quality that is no key
rarity_conversion(quality) ==
  CASE quality = PyStr("QUALITY_PURPLE") -> PyStr("4")
    [] quality = PyStr("QUALITY_ORANGE") -> PyStr("5")
    [] quality = PyStr("QUALITY_ORANGE_SP") -> PyStr("5")
    [] OTHER -> PyNone

\* the loop of _add_rarity from the j-th accumulator entry on
RECURSIVE AddRarityFrom(_, _)
AddRarityFrom(m, j) ==
  IF j > Len(m.order) THEN m
  ELSE
    LET avatar_id == m.order[j]
        a == avatar(m, avatar_id)
    IN IF a.m.fault # NoFault THEN a.m
       ELSE AddRarityFrom(
              SetField(a.m, avatar_id, "rarity",
                       rarity_conversion(Get(a.value, "QualityType"))),
              j + 1)

\* _add_element with characters.setdefault(character_id, {}) in place of
\* the two characters[character_id] reads
RECURSIVE AddElementFromSetdefault(_, _)
AddElementFromSetdefault(m, i) ==
  LET table == content["FetterInfoExcelConfigData"] IN
  IF i > Len(table) THEN m
  ELSE
    LET element == table[i]
        character_id == Str(Get(element, "AvatarId"))
        before == text_map(m, Str(Get(element, "AvatarVisionBeforTextMapHash")))
    IN IF before.m.fault # NoFault THEN before.m
       ELSE
         LET after == text_map(before.m,
                               Str(Get(element, "AvatarVisionAfterTextMapHash")))
             entry == IF character_id \in DOMAIN after.m.characters
                      THEN after.m.characters[character_id]
                      ELSE EmptyDict
         IN IF after.m.fault # NoFault THEN after.m
            ELSE AddElementFromSetdefault(
                   [after.m EXCEPT
                      !.order = PutOrder(@, after.m.characters, character_id),
                      !.characters =
                        Put(@, character_id,
                            Put(entry, "element", PyStr(before.value)))],
                   i + 1)

\* the loop of _add_element from the i-th Fetter record on; the arguments
\* of logger.debug read characters[character_id]["name"], a KeyError for
\* an id that is no key, before the element is stored
RECURSIVE AddElementFrom(_, _)
AddElementFrom(m, i) ==
  LET table == content["FetterInfoExcelConfigData"] IN
  IF i > Len(table) THEN m
  ELSE
    LET element == table[i]
        character_id == Str(Get(element, "AvatarId"))
        vision_before_hash == Str(Get(element, "AvatarVisionBeforTextMapHash"))
        vision_after_hash == Str(Get(element, "AvatarVisionAfterTextMapHash"))
        before == text_map(m, vision_before_hash)
    IN IF before.m.fault # NoFault THEN before.m
       ELSE
         LET after == text_map(before.m, vision_after_hash)
         IN IF after.m.fault # NoFault THEN after.m
            ELSE IF character_id \notin DOMAIN after.m.characters
            THEN Raise(after.m, "KeyError")
            ELSE AddElementFrom(
                   SetField(after.m, character_id, "element",
                            PyStr(before.value)),
                   i + 1)

\* the loop of _add_weapon from the j-th accumulator entry on; the record's
\* ["WeaponType"] is a KeyError when the field is absent
RECURSIVE AddWeaponFrom(_, _)
AddWeaponFrom(m, j) ==
  IF j > Len(m.order) THEN m
  ELSE
    LET avatar_id == m.order[j]
        a == avatar(m, avatar_id)
    IN IF a.m.fault # NoFault THEN a.m
       ELSE IF "WeaponType" \notin DOMAIN a.value THEN Raise(a.m, "KeyError")
       ELSE
         LET h == manual_text_map(a.m, a.value["WeaponType"])
         IN IF h.m.fault # NoFault THEN h.m
            ELSE
              LET t == text_map(h.m, h.value)
              IN IF t.m.fault # NoFault THEN t.m
                 ELSE AddWeaponFrom(
                        SetField(t.m, avatar_id, "weapon", PyStr(t.value)),
                        j + 1)

(***************************************************************************)
(* main(): the passes in order, then the write.  An exception leaves       *)
(* main's loop, so no later pass and no write runs.                        *)
(***************************************************************************)
functions ==
  <<"_setup", "_add_description", "_add_rarity", "_add_element",
    "_add_weapon">>

\* main with every pass wrapped in try/except: it goes on after a fault
ContinueRegardless(m, next) == next

\* where main continues after the pass that left the state m
Continue(m, next) == IF m.fault = NoFault THEN next ELSE "aborted"

\* the state after a pass named f left m
Commit(m, f, next) ==
  /\ characters' = m.characters
  /\ order' = m.order
  /\ avatar_cache' = m.avatar_cache
  /\ manual_cache' = m.manual_cache
  /\ text_cache' = m.text_cache
  /\ text_access' = m.text_access
  /\ text_returned' = m.text_returned
  /\ critical' = m.critical
  /\ fault' = m.fault
  /\ completed' = IF m.fault = NoFault THEN Append(completed, f) ELSE completed
  /\ pc' = Continue(m, next)
  /\ UNCHANGED <<content, output, writes>>

Init ==
  /\ pc = "load"
  /\ content = NoContent
  /\ characters = EmptyDict
  /\ order = <<>>
  /\ avatar_cache = EmptyDict
  /\ manual_cache = EmptyDict
  /\ text_cache = EmptyDict
  /\ text_access = EmptyDict
  /\ text_returned = EmptyDict
  /\ critical = <<>>
  /\ fault = NoFault
  /\ completed = <<>>
  /\ output = NoOutput
  /\ writes = 0

\* the body of class Lookup: pymon.io.read of the four documents.  A
\* missing document is logged critical and the FileNotFoundError ends the
\* program before main is called.
Load ==
  /\ pc = "load"
  /\ \/ /\ \E missing \in Documents :
             /\ critical' = Append(critical, "Read failed")
             /\ fault' = "FileNotFoundError"
             /\ pc' = "aborted"
        /\ UNCHANGED content
     \/ /\ \E c \in Contents : content' = c
        /\ pc' = "setup"
        /\ UNCHANGED <<critical, fault>>
  /\ UNCHANGED <<characters, order, avatar_cache, manual_cache, text_cache,
                 text_access, text_returned, completed, output, writes>>

Setup ==
  /\ pc = "setup"
  /\ Commit(SetupFrom(Machine, 1), "_setup", "description")

AddDescription ==
  /\ pc = "description"
  /\ Commit(AddDescriptionFrom(Machine, 1), "_add_description", "rarity")

AddRarity ==
  /\ pc = "rarity"
  /\ Commit(AddRarityFrom(Machine, 1), "_add_rarity", "element")

AddElement ==
  /\ pc = "element"
  /\ Commit(AddElementFrom(Machine, 1), "_add_element", "weapon")

AddWeapon ==
  /\ pc = "weapon"
  /\ Commit(AddWeaponFrom(Machine, 1), "_add_weapon", "write")

\* pymon.io.write: open(path, "w") either fails (the directory is missing:
\* critical log, FileNotFoundError, nothing written) or the accumulator is
\* dumped
Write ==
  /\ pc = "write"
  /\ \/ /\ output' = [written |-> TRUE, data |-> characters]
        /\ writes' = writes + 1
        /\ pc' = "done"
        /\ UNCHANGED <<critical, fault>>
     \/ /\ critical' = Append(critical, "Unable to open")
        /\ fault' = "FileNotFoundError"
        /\ pc' = "aborted"
        /\ UNCHANGED <<output, writes>>
  /\ UNCHANGED <<content, characters, order, avatar_cache, manual_cache,
                 text_cache, text_access, text_returned, completed>>

Next ==
  \/ Load
  \/ Setup
  \/ AddDescription
  \/ AddRarity
  \/ AddElement
  \/ AddWeapon
  \/ Write

Spec == Init /\ [][Next]_vars

(***************************************************************************)
(* Reference definitions for the properties, written from the tables and   *)
(* not from the lookups above.                                             *)
(***************************************************************************)
AvatarTable == content["AvatarExcelConfigData"]

FetterTable == content["FetterInfoExcelConfigData"]

ManualTable == content["ManualTextMapConfigData"]

Range(seq) == {seq[i] : i \in 1..Len(seq)}

\* the playability predicate: UseType is present and is the sentinel
Playable(a) == Get(a, "UseType") = PyStr("AVATAR_FORMAL")

PlayableAvatars == {a \in Range(AvatarTable) : Playable(a)}

IdOf(a) == Str(Get(a, "Id"))

PlayableIds == {IdOf(a) : a \in PlayableAvatars}

\* the localized text of a hash value; "?" when the text map has no such key
Text(hash) ==
  IF Str(hash) \in DOMAIN content["TextMapEN"]
  THEN Str(content["TextMapEN"][Str(hash)])
  ELSE "?"

\* the first / last playable record with the given stringified Id
PlayableAt(id) ==
  {i \in 1..Len(AvatarTable) :
     Playable(AvatarTable[i]) /\ IdOf(AvatarTable[i]) = id}

FirstPlayable(id) ==
  AvatarTable[CHOOSE i \in PlayableAt(id) : \A j \in PlayableAt(id) : i <= j]

IsTraveler(a) == Lower(Text(Get(a, "NameTextMapHash"))) = "traveler"

ReferenceName(a) ==
  IF IsTraveler(a) /\ Get(a, "BodyType") = PyStr("BODY_BOY") THEN "Aether"
  ELSE IF IsTraveler(a) /\ Get(a, "BodyType") = PyStr("BODY_GIRL") THEN "Lumine"
  ELSE Text(Get(a, "NameTextMapHash"))

ReferenceRarity(a) ==
  IF Get(a, "QualityType") = PyStr("QUALITY_PURPLE") THEN PyStr("4")
  ELSE IF Get(a, "QualityType") \in
            {PyStr("QUALITY_ORANGE"), PyStr("QUALITY_ORANGE_SP")}
  THEN PyStr("5")
  ELSE PyNone

AllKeys == {"name", "description", "rarity", "element", "weapon"}

FixtureContent ==
  [AvatarExcelConfigData |-> <<Ayaka>>,
   FetterInfoExcelConfigData |-> <<FetterAyaka>>,
   ManualTextMapConfigData |-> ManualFixture,
   TextMapEN |-> TextMapFixture]

FixtureOutput ==
  "10000002" :>
    [name |-> PyStr("Kamisato Ayaka"),
     description |-> PyStr("A shrine maiden..."),
     rarity |-> PyStr("5"), element |-> PyStr("Cryo"),
     weapon |-> PyStr("Sword")]

(***************************************************************************)
(* Properties.                                                             *)
(***************************************************************************)

\* C1: the output document is written at most once, and only when all five
\* passes have returned and no exception was raised; once any exception is
\* raised (missing document, lookup without a match, hash absent from the
\* text map, unknown traveler BodyType) the run is aborted and nothing is
\* written.  A run that ends normally has written exactly once, and what
\* it wrote is the accumulator.
C1_NoPartialOutput ==
  /\ writes <= 1
  /\ output.written =>
       /\ completed = functions
       /\ fault = NoFault
       /\ pc = "done"
       /\ writes = 1
       /\ output.data = characters
  /\ fault # NoFault => pc = "aborted" /\ ~output.written /\ writes = 0
  /\ pc = "done" => output.written
  /\ pc = "write" => completed = functions /\ fault = NoFault

\* C1 witness: the last pass (_add_weapon) raised after four passes had
\* filled the accumulator, and nothing was written
C1_AbortedInLastPass ==
  /\ pc = "aborted"
  /\ fault = "RuntimeError"
  /\ completed = SubSeq(functions, 1, 4)
  /\ DOMAIN characters # {}
  /\ ~output.written

\* C2: in every state each key of the accumulator is the stringified Id of
\* an Avatar record whose UseType is "AVATAR_FORMAL", and after a run that
\* ends normally the keys of the output are exactly the stringified Ids of
\* those records; records with another or no UseType contribute no key.
C2_MembershipIsPlayability ==
  /\ DOMAIN characters \subseteq PlayableIds
  /\ "_setup" \in Range(completed) => DOMAIN characters = PlayableIds
  /\ pc = "done" => DOMAIN output.data = PlayableIds

\* C2 witness: a finished run over a table that holds Ayaka next to a record
\* with no UseType, whose Id (10000007) is no key of the output
C2_NonPlayableLeftOut ==
  /\ pc = "done"
  /\ NoUseType \in Range(AvatarTable)
  /\ DOMAIN output.data = {"10000002"}

\* C3: after a run in which all five passes returned, every record of the
\* accumulator and of the output has all five keys.
C3_FullyPopulated ==
  pc = "done" =>
    \A id \in DOMAIN output.data : DOMAIN output.data[id] = AllKeys

\* C4: after a run that ends normally the output is the reference join: its
\* keys are the playable Ids, and for each playable avatar a the record
\* under str(a.Id) has a's name (with the traveler override), a's
\* description, the fixed mapping of a's QualityType, the "before" vision
\* text of a Fetter record of a, and the text of the manual-text-map hash
\* of a's WeaponType; the fixture yields exactly the fixture's output.
C4_ReferenceJoin ==
  pc = "done" =>
    /\ DOMAIN output.data = PlayableIds
    /\ content = FixtureContent => output.data = FixtureOutput
    /\ \A a \in PlayableAvatars :
         LET r == output.data[IdOf(a)] IN
         /\ Get(r, "name") = PyStr(ReferenceName(a))
         /\ Get(r, "description") = PyStr(Text(Get(a, "DescTextMapHash")))
         /\ "rarity" \in DOMAIN r /\ r["rarity"] = ReferenceRarity(a)
         /\ \E f \in Range(FetterTable) :
              /\ Str(Get(f, "AvatarId")) = IdOf(a)
              /\ Get(r, "element") =
                   PyStr(Text(Get(f, "AvatarVisionBeforTextMapHash")))
         /\ \E t \in Range(ManualTable) :
              /\ Get(t, "TextMapId") = Get(a, "WeaponType")
              /\ Get(r, "weapon") =
                   PyStr(Text(Get(t, "TextMapContentTextMapHash")))

\* C5: a run aborted by a missing-entry exception (FileNotFoundError,
\* RuntimeError of a lookup, KeyError) has a critical message in its log.
C5_NotFoundLogged ==
  fault \in {"FileNotFoundError", "RuntimeError", "KeyError"} =>
    critical # <<>>

\* C6: once Populate has returned, and so in the output, for every playable
\* avatar whose name resolves to "traveler" in any letter case and whose
\* BodyType is BODY_BOY or BODY_GIRL, the name under its Id is "Aether"
\* (BODY_BOY) or "Lumine" (BODY_GIRL).
C6_TravelerName ==
  "_setup" \in Range(completed) =>
    \A a \in PlayableAvatars :
      IsTraveler(a) =>
        /\ Get(a, "BodyType") = PyStr("BODY_BOY") =>
             characters[IdOf(a)]["name"] = PyStr("Aether")
        /\ Get(a, "BodyType") = PyStr("BODY_GIRL") =>
             characters[IdOf(a)]["name"] = PyStr("Lumine")

\* C7: every rarity in the accumulator and in the output is "4", "5" or
\* null, and it is the fixed mapping of the QualityType of the record
\* avatar_by_id returns (PURPLE "4", ORANGE and ORANGE_SP "5", anything
\* else or no QualityType null); _add_rarity never raises.
C7_RarityRestricted ==
  /\ \A id \in DOMAIN characters :
       "rarity" \in DOMAIN characters[id] =>
         /\ characters[id]["rarity"] \in {PyStr("4"), PyStr("5"), PyNone}
         /\ characters[id]["rarity"] = ReferenceRarity(FirstPlayable(id))
  /\ \A id \in DOMAIN output.data :
       /\ "rarity" \in DOMAIN output.data[id]
       /\ output.data[id]["rarity"] \in {PyStr("4"), PyStr("5"), PyNone}
  /\ completed = SubSeq(functions, 1, 2) => pc = "rarity"
  /\ Len(completed) > 2 =>
       \A id \in DOMAIN characters : "rarity" \in DOMAIN characters[id]

\* C7 witness: a finished run whose output holds a null rarity (the
\* traveler without QualityType) next to a "5"
C7_NullRarityWritten ==
  /\ pc = "done"
  /\ \E id \in DOMAIN output.data : output.data[id]["rarity"] = PyNone
  /\ \E id \in DOMAIN output.data : output.data[id]["rarity"] = PyStr("5")

\* C8: for every hash, all calls of text_map that returned gave the same
\* string, the text map's entry stringified, and the Text-Map table was
\* read at most once for it, whatever other lookups ran in between.
C8_TextMapMemoized ==
  \A h \in DOMAIN text_access \cup DOMAIN text_returned :
    /\ Count(text_access, h) <= 1
    /\ \A i \in DOMAIN Calls(text_returned, h) :
         /\ Calls(text_returned, h)[i] = Calls(text_returned, h)[1]
         /\ Calls(text_returned, h)[i] = Text(PyStr(h))
         /\ Count(text_access, h) = 1

\* C8 witness: a finished run that asked for the description hash and for
\* the vision hash more than once each, with other lookups in between
C8_RepeatedCalls ==
  /\ pc = "done"
  /\ Len(Calls(text_returned, "H2")) > 1
  /\ Len(Calls(text_returned, "H3")) > 1
  /\ Len(Calls(text_returned, "H4")) > 1

\* what C9 asks of one step
PassKeepsKeysAndFields ==
  pc \in {"description", "rarity", "element", "weapon"} =>
    /\ DOMAIN characters' = DOMAIN characters
    /\ order' = order
    /\ \A id \in DOMAIN characters :
         \A field \in DOMAIN characters[id] :
           /\ field \in DOMAIN characters'[id]
           /\ characters'[id][field] = characters[id][field]

\* C9: a step of _add_description, _add_rarity, _add_element or
\* _add_weapon, finished or aborted, leaves the accumulator's keys and
\* their order as they were and every field that was set before it with
\* its value.
C9_KeySetFixed == [][PassKeepsKeysAndFields]_vars

\* C9 witness: _add_element met a Fetter record whose AvatarId (10000099)
\* is no key, raised the unlogged KeyError and inserted nothing
C9_StrangerNotInserted ==
  /\ pc = "aborted"
  /\ fault = "KeyError"
  /\ critical = <<>>
  /\ completed = SubSeq(functions, 1, 3)
  /\ FetterStranger \in Range(FetterTable)
  /\ DOMAIN characters # {}
  /\ "10000099" \notin DOMAIN characters

\* C10: for every key of the accumulator, the name, description, rarity
\* and weapon stored under it are those of one record, the first playable
\* record with that Id (the one Lookup.avatar returns).
C10_OneSourceRecord ==
  \A id \in DOMAIN characters :
    LET a == FirstPlayable(id)
        r == characters[id]
    IN /\ r["name"] = PyStr(ReferenceName(a))
       /\ "description" \in DOMAIN r =>
            r["description"] = PyStr(Text(Get(a, "DescTextMapHash")))
       /\ "rarity" \in DOMAIN r => r["rarity"] = ReferenceRarity(a)
       /\ "weapon" \in DOMAIN r =>
            \E t \in Range(ManualTable) :
              /\ Get(t, "TextMapId") = Get(a, "WeaponType")
              /\ r["weapon"] = PyStr(Text(Get(t, "TextMapContentTextMapHash")))

====
